---- MODULE Spec2Model ----
(***************************************************************************)
(* A model of src/snake_desktop.py: the Game object, its event handlers,   *)
(* the fixed-timestep update loop and the frame loop of Game.run.          *)
(*                                                                         *)
(* Representation of numbers.  Speeds are Python floats with one decimal   *)
(* (8.0, 23.6, 24.0); the model holds them in tenths (80, 236, 240).       *)
(* Times are held in units of 1/TimeScale second, TimeScale chosen so that *)
(* 1/speed is a whole number of units for every speed the model reaches:   *)
(* 1/23.6 s = 60 units and 1/24.0 s = 59 units.  Arithmetic on them is the *)
(* exact arithmetic the floats approximate.                                *)
(***************************************************************************)
EXTENDS Integers, Sequences, FiniteSets, TLC

(***************************************************************************)
(* Bounds of the model.                                                    *)
(***************************************************************************)
\* the wall clock (pygame.time.get_ticks) is followed up to MaxTime units
MaxTime == 240

\* frame times the clock can advance by between two passes of the loop:
\* half a tick interval, and a long frame of two and a half tick intervals
DtValues == {30, 150}

(***************************************************************************)
(* Program constants.                                                      *)
(***************************************************************************)
TimeScale == 1416

DEFAULT_grid == 20
DEFAULT_cell_size == 24
DEFAULT_speed == 80

start_len == 4

K_RETURN == 13
K_ESCAPE == 27
K_SPACE == 32
K_1 == 49
K_9 == 57
K_a == 97
K_d == 100
K_r == 114
K_s == 115
K_w == 119
K_RIGHT == 1073741903
K_LEFT == 1073741904
K_DOWN == 1073741905
K_UP == 1073741906

NumPalettes == 4

(***************************************************************************)
(* Inputs of the model: what the files hold, the events and the random     *)
(* draws.                                                                  *)
(***************************************************************************)
\* board sizes, wrap modes and speeds snake_settings.json can hold, and the
\* contents of snake_best.json
GridSizes == {6}
WrapModes == {TRUE, FALSE}
ConfiguredSpeeds == {236}
BestFiles == {<<>>, <<1>>}

\* KEYDOWN events <<key, Ctrl held>>: the arrows, W A S D, Space, Escape, 1, 9,
\* Enter and R, and S with Ctrl held
KeyPresses ==
    ({K_UP, K_w, K_DOWN, K_s, K_LEFT, K_a, K_RIGHT, K_d,
      K_SPACE, K_ESCAPE, K_1, K_9, K_RETURN, K_r} \X {FALSE}) \cup {<<K_s, TRUE>>}

\* mouse events <<button, pixel>>: where a button is pressed and released
PressPositions == {<<192, 260>>}
ReleasePositions == {<<192, 260>>, <<222, 260>>, <<162, 260>>, <<192, 290>>,
                     <<192, 230>>, <<208, 260>>, <<222, 290>>}

MousePresses == ({1} \X PressPositions) \cup {<<3, <<0, 0>>>>}
MouseReleases == ({1} \X ReleasePositions) \cup {<<3, <<222, 260>>>>}

\* touch points <<e.x, e.y>>, each coordinate a fraction <<numerator, denominator>>
\* of the window
FingerDownPoints == {<<<<1, 2>>, <<1, 2>>>>}
FingerUpPoints == {<<<<1, 2>>, <<1, 2>>>>, <<<<3, 4>>, <<1, 2>>>>, <<<<1, 4>>, <<1, 2>>>>,
                   <<<<1, 2>>, <<3, 4>>>>, <<<<1, 2>>, <<1, 4>>>>}

\* The cells random.randrange draws in spawn_food, for a board of n by n: the
\* cell ahead of the starting head, the cell below it, a cell of the starting
\* snake, and a far corner.
Draws(n) ==
    LET mid == n \div 2
    IN  {<<mid + 1, mid>>, <<mid, mid + 1>>, <<mid - 1, mid>>, <<0, 0>>}

\* window sizes of VIDEORESIZE events
ResizeSizes == {<<800, 600>>}

\* Python's None, where the other values are tuples
None == <<>>

\* A file is the sequence of the records it holds: none when it does not exist,
\* one when it does.
NoFile == <<>>
FileOf(v) == <<v>>
ContentOf(file) == file[1]

(***************************************************************************)
(* Utility helpers.                                                        *)
(***************************************************************************)
Max(a, b) == IF a >= b THEN a ELSE b
Min(a, b) == IF a <= b THEN a ELSE b
Abs(a) == IF a < 0 THEN -a ELSE a

clamp(v, a, b) == Max(a, Min(b, v))

\* x in seq: Python's "in" on a list
InList(x, s) == \E i \in 1..Len(s) : s[i] = x

Neg(d) == <<-d[1], -d[2]>>

\* 1.0 / speed, in time units
StepOf(speed) == (10 * TimeScale) \div speed

(***************************************************************************)
(* State.  The fields of the Game object, the two files it reads and       *)
(* writes, and the position and locals of Game.run.                        *)
(***************************************************************************)
VARIABLES
    settings,           \* self.settings: the dict load_settings returned
    grid,               \* self.grid
    cell,               \* self.cell
    speed,              \* self.speed, in tenths
    wrap,               \* self.wrap
    screen,             \* size <<w, h>> of self.screen
    snake,              \* self.snake: list of cells, head first
    dir,                \* self.dir: the committed direction
    next_dir,           \* self.next_dir: the requested direction
    food,               \* self.food
    score,              \* self.score
    tick_timer,         \* self.tick_timer, in time units
    best,               \* self.best
    running,            \* self.running
    paused,             \* self.paused
    swipe_start,        \* self.swipe_start: None or a pixel position
    SWIPE_THRESHOLD,    \* self.SWIPE_THRESHOLD
    show_settings,      \* self.show_settings
    selected_palette,   \* self.selected_palette
    best_file,          \* content of snake_best.json: NoFile or the number stored
    settings_file,      \* content of snake_settings.json: NoFile or a settings record
    clock,              \* pygame.time.get_ticks(), in time units
    last_time,          \* local last_time of Game.run
    dt,                 \* local dt of Game.run
    step,               \* local step of Game.update
    pc                  \* position of Game.run: "top", "events", "ticking", "exited"

gameVars == <<settings, grid, cell, speed, wrap, screen, snake, dir, next_dir, food,
              score, tick_timer, best, running, paused, swipe_start, SWIPE_THRESHOLD,
              show_settings, selected_palette, best_file, settings_file>>

loopVars == <<clock, last_time, dt, step, pc>>

vars == <<settings, grid, cell, speed, wrap, screen, snake, dir, next_dir, food,
          score, tick_timer, best, running, paused, swipe_start, SWIPE_THRESHOLD,
          show_settings, selected_palette, best_file, settings_file,
          clock, last_time, dt, step, pc>>

\* the Game object together with the two files, as one value
Self ==
    [ settings |-> settings, grid |-> grid, cell |-> cell, speed |-> speed,
      wrap |-> wrap, screen |-> screen, snake |-> snake, dir |-> dir,
      next_dir |-> next_dir, food |-> food, score |-> score,
      tick_timer |-> tick_timer, best |-> best, running |-> running,
      paused |-> paused, swipe_start |-> swipe_start,
      SWIPE_THRESHOLD |-> SWIPE_THRESHOLD, show_settings |-> show_settings,
      selected_palette |-> selected_palette, best_file |-> best_file,
      settings_file |-> settings_file ]

\* the Game object and the files become g
Store(g) ==
    /\ settings' = g.settings
    /\ grid' = g.grid
    /\ cell' = g.cell
    /\ speed' = g.speed
    /\ wrap' = g.wrap
    /\ screen' = g.screen
    /\ snake' = g.snake
    /\ dir' = g.dir
    /\ next_dir' = g.next_dir
    /\ food' = g.food
    /\ score' = g.score
    /\ tick_timer' = g.tick_timer
    /\ best' = g.best
    /\ running' = g.running
    /\ paused' = g.paused
    /\ swipe_start' = g.swipe_start
    /\ SWIPE_THRESHOLD' = g.SWIPE_THRESHOLD
    /\ show_settings' = g.show_settings
    /\ selected_palette' = g.selected_palette
    /\ best_file' = g.best_file
    /\ settings_file' = g.settings_file

(***************************************************************************)
(* Settings persistence.                                                   *)
(***************************************************************************)
DEFAULT ==
    [ grid |-> DEFAULT_grid, cell_size |-> DEFAULT_cell_size,
      speed |-> DEFAULT_speed, wrap |-> TRUE ]

load_settings(file) == IF file # NoFile THEN ContentOf(file) ELSE DEFAULT

\* the write is taken to succeed; a failed write only prints a warning
save_settings(g, s) == [g EXCEPT !.settings_file = FileOf(s)]

load_best(file) == IF file # NoFile THEN ContentOf(file) ELSE 0

\* the write is taken to succeed; a failed write only prints a warning
save_best(g, b) == [g EXCEPT !.best_file = FileOf(b)]

(***************************************************************************)
(* Game: the state after a restart, food placement, one tick.              *)
(***************************************************************************)
\* a draw of spawn_food that fell on the snake and is drawn again
Resample == <<-1, -1>>

spawn_food_any(g, rnd) == [g EXCEPT !.food = rnd]

\* One pass of the loop of spawn_food with the random cell rnd: the cell is
\* taken when it is not on the snake, and drawn again when it is.
spawn_food(g, rnd) ==
    IF ~InList(rnd, g.snake)
        THEN [g EXCEPT !.food = rnd]
        ELSE [g EXCEPT !.food = Resample]

reset(g, rnd) ==
    LET mid == g.grid \div 2
        g1 == [g EXCEPT !.snake = [i \in 1..start_len |-> <<mid - (i - 1), mid>>],
                        !.dir = <<1, 0>>,
                        !.next_dir = <<1, 0>>]
        g2 == spawn_food(g1, rnd)
    IN  [g2 EXCEPT !.score = 0, !.tick_timer = 0]

game_over_nosave(g) ==
    LET g1 == [g EXCEPT !.running = FALSE]
    IN  IF g1.score > g1.best THEN [g1 EXCEPT !.best = g1.score] ELSE g1

game_over(g) ==
    LET g1 == [g EXCEPT !.running = FALSE]
    IN  IF g1.score > g1.best
            THEN save_best([g1 EXCEPT !.best = g1.score], g1.score)
            ELSE g1

wrap_cell_upper_only(g, nx, ny) ==
    <<IF nx >= g.grid THEN nx - g.grid ELSE nx,
      IF ny >= g.grid THEN ny - g.grid ELSE ny>>

\* nx %= self.grid; ny %= self.grid
wrap_cell(g, nx, ny) == <<nx % g.grid, ny % g.grid>>

hits_wall_above_grid(g, nx, ny) == nx < 0 \/ nx > g.grid \/ ny < 0 \/ ny > g.grid

\* the test of the board's edge when wrap is off
hits_wall(g, nx, ny) == nx < 0 \/ nx >= g.grid \/ ny < 0 \/ ny >= g.grid

eat_unclamped(g, rnd) ==
    spawn_food([g EXCEPT !.score = g.score + 1, !.speed = g.speed + 4], rnd)

eat_drop_tail(g, rnd) ==
    spawn_food([g EXCEPT !.score = g.score + 1,
                         !.speed = clamp(g.speed + 4, 30, 240),
                         !.snake = SubSeq(g.snake, 1, Len(g.snake) - 1)],
               rnd)

\* the branch of tick that eats the food
eat(g, rnd) ==
    spawn_food([g EXCEPT !.score = g.score + 1,
                         !.speed = clamp(g.speed + 4, 30, 240)],
               rnd)

move_keep_tail(g) == g

\* the branch of tick that drops the tail: self.snake.pop()
move(g) == [g EXCEPT !.snake = SubSeq(g.snake, 1, Len(g.snake) - 1)]

hits_self_never(g, c) == FALSE

hits_self_ignoring_tail(g, c) == InList(c, SubSeq(g.snake, 1, Len(g.snake) - 1))

\* the test of the snake's own cells: (nx, ny) in self.snake
hits_self(g, c) == InList(c, g.snake)

tick(g, rnd) ==
    LET g1 == [g EXCEPT !.dir = g.next_dir]
        hx == g1.snake[1][1]
        hy == g1.snake[1][2]
        nx == hx + g1.dir[1]
        ny == hy + g1.dir[2]
        nh == IF g1.wrap THEN wrap_cell(g1, nx, ny) ELSE <<nx, ny>>
    IN  IF ~g1.wrap /\ hits_wall(g1, nx, ny)
            THEN game_over(g1)
        ELSE IF hits_self(g1, nh)
            THEN game_over(g1)
        ELSE LET g2 == [g1 EXCEPT !.snake = <<nh>> \o g1.snake]
             IN  IF nh = g2.food THEN eat(g2, rnd) ELSE move(g2)

(***************************************************************************)
(* Input handling.                                                         *)
(***************************************************************************)
try_set_dir_against_next(g, x, y) ==
    IF x = -g.next_dir[1] /\ y = -g.next_dir[2]
        THEN g
        ELSE [g EXCEPT !.next_dir = <<x, y>>]

try_set_dir_always(g, x, y) == [g EXCEPT !.next_dir = <<x, y>>]

try_set_dir_keep_first(g, x, y) ==
    IF (x = -g.dir[1] /\ y = -g.dir[2]) \/ g.next_dir # g.dir
        THEN g
        ELSE [g EXCEPT !.next_dir = <<x, y>>]

try_set_dir(g, x, y) ==
    IF x = -g.dir[1] /\ y = -g.dir[2]
        THEN g
        ELSE [g EXCEPT !.next_dir = <<x, y>>]

apply_palette(g, idx) == [g EXCEPT !.selected_palette = idx]

rebuild_board(g) ==
    LET c == Max(8, g.cell)
        board_px == g.grid * c
    IN  [g EXCEPT !.cell = c,
                  !.screen = <<board_px + 240, Max(board_px, 520)>>]

swipe_release_at_threshold(g, ex, ey) ==
    LET dx == ex - g.swipe_start[1]
        dy == ey - g.swipe_start[2]
        g1 == IF Abs(dx) > Abs(dy) /\ Abs(dx) >= g.SWIPE_THRESHOLD
                  THEN try_set_dir(g, IF dx > 0 THEN 1 ELSE -1, 0)
              ELSE IF Abs(dy) >= g.SWIPE_THRESHOLD
                  THEN try_set_dir(g, 0, IF dy > 0 THEN 1 ELSE -1)
              ELSE g
    IN  [g1 EXCEPT !.swipe_start = None]

\* the release of a swipe that started at g.swipe_start and ends at <<ex, ey>>
swipe_release(g, ex, ey) ==
    LET dx == ex - g.swipe_start[1]
        dy == ey - g.swipe_start[2]
        g1 == IF Abs(dx) > Abs(dy) /\ Abs(dx) > g.SWIPE_THRESHOLD
                  THEN try_set_dir(g, IF dx > 0 THEN 1 ELSE -1, 0)
              ELSE IF Abs(dy) > g.SWIPE_THRESHOLD
                  THEN try_set_dir(g, 0, IF dy > 0 THEN 1 ELSE -1)
              ELSE g
    IN  [g1 EXCEPT !.swipe_start = None]

\* int(e.x * width): e.x is the fraction fx[1] / fx[2] of the window
finger_px(fx, size) == (fx[1] * size) \div fx[2]

keydown(g, key, ctrl) ==
    IF key \in {K_UP, K_w} THEN try_set_dir(g, 0, -1)
    ELSE IF key \in {K_DOWN, K_s} THEN try_set_dir(g, 0, 1)
    ELSE IF key \in {K_LEFT, K_a} THEN try_set_dir(g, -1, 0)
    ELSE IF key \in {K_RIGHT, K_d} THEN try_set_dir(g, 1, 0)
    ELSE IF key = K_SPACE THEN [g EXCEPT !.paused = ~g.paused]
    ELSE IF key = K_s THEN [g EXCEPT !.show_settings = ~g.show_settings]
    ELSE IF key = K_w
        THEN IF g.show_settings THEN [g EXCEPT !.wrap = ~g.wrap] ELSE g
    ELSE IF key = K_ESCAPE
        THEN IF g.show_settings THEN [g EXCEPT !.show_settings = FALSE] ELSE g
    ELSE IF g.show_settings
        THEN IF K_1 <= key /\ key <= K_9
                 THEN IF key - K_1 < NumPalettes
                          THEN apply_palette(g, key - K_1)
                          ELSE g
             ELSE IF key = K_UP
                 THEN [g EXCEPT !.speed = clamp(g.speed + 5, 10, 240)]
             ELSE IF key = K_DOWN
                 THEN [g EXCEPT !.speed = clamp(g.speed - 5, 10, 240)]
             ELSE IF key = K_LEFT
                 THEN rebuild_board([g EXCEPT !.grid = clamp(g.grid - 2, 8, 48)])
             ELSE IF key = K_RIGHT
                 THEN rebuild_board([g EXCEPT !.grid = clamp(g.grid + 2, 8, 48)])
             ELSE IF ctrl /\ key = K_s
                 THEN LET s == [grid |-> g.grid, cell_size |-> g.cell,
                                speed |-> g.speed, wrap |-> g.wrap]
                      IN  save_settings([g EXCEPT !.settings = s], s)
             ELSE g
    ELSE g

handle_event(g, e) ==
    IF e.type = "QUIT" THEN [g EXCEPT !.running = FALSE]
    ELSE IF e.type = "VIDEORESIZE" THEN [g EXCEPT !.screen = <<e.w, e.h>>]
    ELSE IF e.type = "KEYDOWN" THEN keydown(g, e.key, e.ctrl)
    ELSE IF e.type = "MOUSEBUTTONDOWN"
        THEN IF e.button = 1 THEN [g EXCEPT !.swipe_start = e.pos] ELSE g
    ELSE IF e.type = "MOUSEBUTTONUP"
        THEN IF e.button = 1 /\ g.swipe_start # None
                 THEN swipe_release(g, e.pos[1], e.pos[2])
                 ELSE g
    ELSE IF e.type = "FINGERDOWN"
        THEN [g EXCEPT !.swipe_start = <<finger_px(e.x, g.screen[1]),
                                         finger_px(e.y, g.screen[2])>>]
    ELSE IF e.type = "FINGERUP"
        THEN IF g.swipe_start # None
                 THEN swipe_release(g, finger_px(e.x, g.screen[1]),
                                       finger_px(e.y, g.screen[2]))
                 ELSE g
    ELSE g

(***************************************************************************)
(* Construction: main() loads the settings, Game.__init__ builds the game, *)
(* Game.run reads the clock once before its loop.                          *)
(***************************************************************************)
SettingsFiles ==
    { FileOf([grid |-> n, cell_size |-> DEFAULT_cell_size, speed |-> s, wrap |-> w]) :
        n \in GridSizes, s \in ConfiguredSpeeds, w \in WrapModes }

Game_init(sfile, bfile, rnd) ==
    LET s == load_settings(sfile)
        board_px == s.grid * s.cell_size
        g0 == [ settings |-> s, grid |-> s.grid, cell |-> s.cell_size,
                speed |-> s.speed, wrap |-> s.wrap,
                screen |-> <<board_px + 240, Max(board_px, 520)>>,
                snake |-> <<>>, dir |-> <<1, 0>>, next_dir |-> <<1, 0>>,
                food |-> Resample, score |-> 0, tick_timer |-> 0,
                best |-> 0, running |-> TRUE, paused |-> FALSE,
                swipe_start |-> None,
                SWIPE_THRESHOLD |-> Max(16, s.cell_size \div 2),
                show_settings |-> FALSE, selected_palette |-> 0,
                best_file |-> bfile, settings_file |-> sfile ]
        g1 == reset(g0, rnd)
    IN  [g1 EXCEPT !.best = load_best(bfile)]

Init ==
    \E sfile \in SettingsFiles, bfile \in BestFiles :
        \E rnd \in Draws(load_settings(sfile).grid) :
            LET g == Game_init(sfile, bfile, rnd)
            IN  /\ g.food # Resample
                /\ settings = g.settings
                /\ grid = g.grid
                /\ cell = g.cell
                /\ speed = g.speed
                /\ wrap = g.wrap
                /\ screen = g.screen
                /\ snake = g.snake
                /\ dir = g.dir
                /\ next_dir = g.next_dir
                /\ food = g.food
                /\ score = g.score
                /\ tick_timer = g.tick_timer
                /\ best = g.best
                /\ running = g.running
                /\ paused = g.paused
                /\ swipe_start = g.swipe_start
                /\ SWIPE_THRESHOLD = g.SWIPE_THRESHOLD
                /\ show_settings = g.show_settings
                /\ selected_palette = g.selected_palette
                /\ best_file = g.best_file
                /\ settings_file = g.settings_file
                /\ clock = 0
                /\ last_time = 0
                /\ dt = 0
                /\ step = 0
                /\ pc = "top"

(***************************************************************************)
(* Game.run: one pass of the loop is FrameStart, any number of events,     *)
(* RestartAndUpdate, and the ticks of the loop of Game.update.             *)
(***************************************************************************)
\* The frame-rate limiter lets d time units pass; the loop then reads the clock.
FrameStart(d) ==
    /\ pc = "top"
    /\ clock + d <= MaxTime
    /\ clock' = clock + d
    /\ dt' = clock' - last_time
    /\ last_time' = clock'
    /\ pc' = "events"
    /\ UNCHANGED <<gameVars, step>>

\* handle_event(e) for an event that does not end the process
Handle(e) ==
    /\ pc = "events"
    /\ Store(handle_event(Self, e))
    /\ UNCHANGED loopVars

Quit ==
    /\ pc = "events"
    /\ Store(handle_event(Self, [type |-> "QUIT"]))
    /\ pc' = "exited"
    /\ UNCHANGED <<clock, last_time, dt, step>>

VideoResize == \E sz \in ResizeSizes :
    Handle([type |-> "VIDEORESIZE", w |-> sz[1], h |-> sz[2]])

KeyDown == \E k \in KeyPresses :
    Handle([type |-> "KEYDOWN", key |-> k[1], ctrl |-> k[2]])

MouseButtonDown == \E m \in MousePresses :
    Handle([type |-> "MOUSEBUTTONDOWN", button |-> m[1], pos |-> m[2]])

MouseButtonUp == \E m \in MouseReleases :
    Handle([type |-> "MOUSEBUTTONUP", button |-> m[1], pos |-> m[2]])

FingerDown == \E p \in FingerDownPoints :
    Handle([type |-> "FINGERDOWN", x |-> p[1], y |-> p[2]])

FingerUp == \E p \in FingerUpPoints :
    Handle([type |-> "FINGERUP", x |-> p[1], y |-> p[2]])

update_enters_while_paused(g) == ~(~g.running \/ g.show_settings)

\* whether update goes past its first test: not (not running or paused or show_settings)
update_enters(g) == ~(~g.running \/ g.paused \/ g.show_settings)

update_enter(g, d) ==
    IF update_enters(g)
        THEN [g EXCEPT !.tick_timer = g.tick_timer + d]
        ELSE g

restart(g, held, rnd) ==
    IF ~g.running /\ held
        THEN reset([g EXCEPT !.running = TRUE], rnd)
        ELSE g

\* The events of this frame are handled.  The loop restarts a game that is
\* over when Enter or R is held, then calls Game.update(dt), which runs up to
\* the test of its loop.
RestartAndUpdate(held) ==
    /\ pc = "events"
    /\ \E rnd \in (IF ~running /\ held THEN Draws(grid) ELSE {Resample}) :
           LET g == restart(Self, held, rnd)
               g1 == update_enter(g, dt)
               entered == update_enters(g)
           IN  /\ g.food # Resample
               /\ Store(g1)
               /\ step' = IF entered THEN StepOf(g.speed) ELSE step
               /\ pc' = IF entered /\ g1.tick_timer >= step' THEN "ticking" ELSE "top"
    /\ UNCHANGED <<clock, last_time, dt>>

\* One pass of the loop of Game.update: tick(), the timer less step, the test again.
Tick ==
    /\ pc = "ticking"
    /\ \E rnd \in Draws(grid) :
           LET g == tick(Self, rnd)
               g1 == [g EXCEPT !.tick_timer = g.tick_timer - step]
           IN  /\ g.food # Resample
               /\ Store(g1)
               /\ pc' = IF g1.tick_timer >= step THEN "ticking" ELSE "top"
    /\ UNCHANGED <<clock, last_time, dt, step>>

Next ==
    \/ \E d \in DtValues : FrameStart(d)
    \/ Quit
    \/ VideoResize
    \/ KeyDown
    \/ MouseButtonDown
    \/ MouseButtonUp
    \/ FingerDown
    \/ FingerUp
    \/ \E held \in BOOLEAN : RestartAndUpdate(held)
    \/ Tick

Spec == Init /\ [][Next]_vars

(***************************************************************************)
(* A game played to a full board.  The player steers the head along        *)
(* FillPath, a path through every cell the initial snake leaves free, and  *)
(* the draws of spawn_food put each food on the first free cell after the  *)
(* one just eaten.  These are choices of the player and outcomes of        *)
(* random.randrange among those the program allows: every behaviour of     *)
(* SpecFill is a behaviour of the program with grid 6 and wrap on.         *)
(***************************************************************************)
MaxFillTime == 1920
FillDts == {30}

\* rows 3 (rest), 4, 5, then over the lower edge to rows 0, 1, 2
FillPath ==
    << <<4,3>>, <<5,3>>,
       <<5,4>>, <<4,4>>, <<3,4>>, <<2,4>>, <<1,4>>, <<0,4>>,
       <<0,5>>, <<1,5>>, <<2,5>>, <<3,5>>, <<4,5>>, <<5,5>>,
       <<5,0>>, <<4,0>>, <<3,0>>, <<2,0>>, <<1,0>>, <<0,0>>,
       <<0,1>>, <<1,1>>, <<2,1>>, <<3,1>>, <<4,1>>, <<5,1>>,
       <<5,2>>, <<4,2>>, <<3,2>>, <<2,2>>, <<1,2>>, <<0,2>> >>

\* every cell of the board: the cells of the initial snake, head first, then FillPath
FillOrder == << <<3,3>>, <<2,3>>, <<1,3>>, <<0,3>> >> \o FillPath

IndexIn(c, s) == CHOOSE i \in 1..Len(s) : s[i] = c

Directions == {<<1, 0>>, <<-1, 0>>, <<0, 1>>, <<0, -1>>}

ArrowOf(d) ==
    IF d = <<0, -1>> THEN K_UP
    ELSE IF d = <<0, 1>> THEN K_DOWN
    ELSE IF d = <<-1, 0>> THEN K_LEFT
    ELSE K_RIGHT

\* the arrows that point from the head to the cell after it in FillOrder
SteerKeys ==
    LET h == snake[1]
        i == IndexIn(h, FillOrder)
    IN  IF i = Len(FillOrder)
            THEN {}
            ELSE { ArrowOf(d) : d \in { e \in Directions :
                       wrap_cell(Self, h[1] + e[1], h[2] + e[2]) = FillOrder[i + 1] } }

\* the outcome of the draws of spawn_food when the food is eaten now: the first
\* free cell after the food in FillOrder, taken cyclically; when the snake and
\* the food cover the board every draw falls on the snake
FillDraws ==
    LET i == IndexIn(food, FillOrder)
        n == Len(FillOrder)
        free == { j \in 1..n : FillOrder[j] # food /\ ~InList(FillOrder[j], snake) }
    IN  IF free = {}
            THEN {food}
            ELSE { FillOrder[CHOOSE j \in free :
                       \A k \in free : (j - i) % n <= (k - i) % n] }

InitFill == Init /\ grid = 6 /\ wrap /\ food = FillPath[1]

FrameStartFill(d) ==
    /\ pc = "top"
    /\ clock + d <= MaxFillTime
    /\ clock' = clock + d
    /\ dt' = clock' - last_time
    /\ last_time' = clock'
    /\ pc' = "events"
    /\ UNCHANGED <<gameVars, step>>

Steer == \E k \in SteerKeys :
    Handle([type |-> "KEYDOWN", key |-> k, ctrl |-> FALSE])

\* One pass of the loop of Game.update, the draws of spawn_food being rnd \in draws.
TickDrawing(draws) ==
    /\ pc = "ticking"
    /\ \E rnd \in draws :
           LET g == tick(Self, rnd)
               g1 == [g EXCEPT !.tick_timer = g.tick_timer - step]
           IN  /\ g.food # Resample
               /\ Store(g1)
               /\ pc' = IF g1.tick_timer >= step THEN "ticking" ELSE "top"
    /\ UNCHANGED <<clock, last_time, dt, step>>

TickFill == TickDrawing(FillDraws)

NextFill ==
    \/ \E d \in FillDts : FrameStartFill(d)
    \/ Steer
    \/ RestartAndUpdate(FALSE)
    \/ TickFill

SpecFill == InitFill /\ [][NextFill]_vars

(***************************************************************************)
(* A game no key touches, with frames of two lengths: a short one and one  *)
(* of just under two intervals at speed 23.6, as a stalled frame gives.    *)
(***************************************************************************)
SlowDts == {30, 119}

FrameStartSlow(d) ==
    /\ pc = "top"
    /\ clock + d <= MaxTime
    /\ clock' = clock + d
    /\ dt' = clock' - last_time
    /\ last_time' = clock'
    /\ pc' = "events"
    /\ UNCHANGED <<gameVars, step>>

NextSlow ==
    \/ \E d \in SlowDts : FrameStartSlow(d)
    \/ RestartAndUpdate(FALSE)
    \/ Tick

SpecSlow == Init /\ [][NextSlow]_vars

(***************************************************************************)
(* Properties.                                                             *)
(***************************************************************************)
\* the snake reset() builds on a board of n by n
InitialSnake(n) == [i \in 1..start_len |-> <<(n \div 2) - (i - 1), n \div 2>>]

OnBoard(c, n) == c[1] >= 0 /\ c[1] < n /\ c[2] >= 0 /\ c[2] < n

\* a step of RestartAndUpdate that restarts the game
RestartStep == pc = "events" /\ ~running /\ running'

\* a step of RestartAndUpdate that does not restart the game
UpdateOnlyStep == pc = "events" /\ pc' \in {"top", "ticking"} /\ (running \/ ~running')

\* the cell head + next_dir, not wrapped
Ahead == <<snake[1][1] + next_dir[1], snake[1][2] + next_dir[2]>>

\* C1: every restart after game-over yields speed equal to the configured
\* speed of the settings, the 4-cell initial snake, score 0 and direction (1,0).
C1_RestartResetsSpeed ==
    [][RestartStep =>
          /\ speed' = settings'.speed
          /\ snake' = InitialSnake(grid')
          /\ score' = 0
          /\ dir' = <<1, 0>>]_vars

\* C2: once a tick has ended the game, tick() is not called again before a
\* restart: the loop of update never stands before a call of tick() with
\* running False.
C2_NoTickAfterGameOver == ~(pc = "ticking" /\ ~running)

\* C3: next_dir is never the reverse of dir, and the direction a tick commits
\* is never the reverse of the direction committed before it.
C3_NeverReverse ==
    /\ [](next_dir # Neg(dir))
    /\ [][Tick => dir' # Neg(dir)]_vars

\* a tick is about to commit a turn requested after an earlier turn was committed
C3_Witness == pc = "ticking" /\ next_dir # dir /\ dir # <<1, 0>>

\* C4: try_set_dir with the exact reverse of dir changes nothing, whatever
\* next_dir is.
C4_ReverseRequestIgnored == try_set_dir(Self, -dir[1], -dir[2]) = Self

\* events are being handled while a turn is pending
C4_Witness == pc = "events" /\ next_dir # dir

\* C5: a tick that does not end the game lengthens the snake by 1 when the new
\* head is the food cell and by 0 otherwise; a tick that ends the game leaves
\* the length as it is; no tick shortens the snake.
C5_TickLength ==
    [][Tick =>
          /\ running' => Len(snake') = Len(snake) + (IF snake'[1] = food THEN 1 ELSE 0)
          /\ ~running' => Len(snake') = Len(snake)
          /\ Len(snake') >= Len(snake)]_vars

\* a snake that has grown and whose game a later tick ended
C5_Witness == Len(snake) = start_len + 1 /\ ~running /\ pc = "top"

\* C6: with wrap off, a tick whose new head lies off the board sets running to
\* False and leaves snake, food, score and speed as they were.
C6_WallEndsGame ==
    [][(Tick /\ ~wrap /\ ~OnBoard(Ahead, grid)) =>
          /\ ~running'
          /\ snake' = snake
          /\ food' = food
          /\ score' = score
          /\ speed' = speed]_vars

\* the game ended with the head on the last column, heading right
C6_Witness ==
    ~wrap /\ ~running /\ pc = "top" /\ snake[1][1] = grid - 1 /\ dir = <<1, 0>>

\* C7: with wrap on, the head is on the board after every tick, and a tick ends
\* the game only by running into the snake.
C7_WrapKeepsHeadOnBoard ==
    /\ [](wrap => OnBoard(snake[1], grid))
    /\ [][(Tick /\ wrap /\ ~running') =>
             InList(<<Ahead[1] % grid, Ahead[2] % grid>>, snake)]_vars

\* the head left row 0 upwards and is on the last row
C7_Witness == wrap /\ dir = <<0, -1>> /\ snake[1][2] = grid - 1 /\ snake[2][2] = 0

\* C8: food is never on the snake: each placement, at reset and after eating,
\* takes a cell that is not a snake cell.
C8_FoodNotOnSnake == ~InList(food, snake) /\ food # Resample

\* food was placed after a pickup while the head was on the eaten cell, which is
\* one of the cells the draws fall on
C8_Witness == score = 1 /\ snake[1] \in Draws(grid) /\ food \in Draws(grid)

C10_PausePreserves ==
    /\ [][(UpdateOnlyStep /\ paused) =>
             /\ pc' = "top"
             /\ UNCHANGED <<snake, dir, food, score, speed, tick_timer>>]_vars
    /\ [][(UpdateOnlyStep /\ running /\ ~paused /\ ~show_settings) =>
             tick_timer' = tick_timer + dt]_vars
    /\ [](pc = "events" => dt \in DtValues)

\* three frames have passed, the last two paused: the timer holds the first
\* frame's half interval and no tick was made
C10_Witness ==
    /\ paused /\ running /\ pc = "top"
    /\ clock = 90 /\ tick_timer = 30
    /\ snake = InitialSnake(grid)

\* a press of key k without a modifier
KeyEvent(k) == [type |-> "KEYDOWN", key |-> k, ctrl |-> FALSE]

\* C11: with the overlay closed, handling a press of S opens the settings
\* overlay.
C11_SKeyOpensSettings ==
    (pc = "events" /\ ~show_settings) =>
        handle_event(Self, KeyEvent(K_s)).show_settings

\* the game as handle_event meets it when the overlay is shown
OverlayOpen == [Self EXCEPT !.show_settings = TRUE]

\* C12: with the overlay shown, Up and Down change speed by +0.5 and -0.5
\* within [1.0, 24.0], Left and Right change grid by -2 and +2 within [8, 48],
\* W toggles wrap, and none of these presses changes next_dir.
C12_OverlayKeysActOnSettings ==
    pc = "events" =>
        /\ handle_event(OverlayOpen, KeyEvent(K_UP)).speed = clamp(speed + 5, 10, 240)
        /\ handle_event(OverlayOpen, KeyEvent(K_DOWN)).speed = clamp(speed - 5, 10, 240)
        /\ handle_event(OverlayOpen, KeyEvent(K_LEFT)).grid = clamp(grid - 2, 8, 48)
        /\ handle_event(OverlayOpen, KeyEvent(K_RIGHT)).grid = clamp(grid + 2, 8, 48)
        /\ handle_event(OverlayOpen, KeyEvent(K_w)).wrap = ~wrap
        /\ \A k \in {K_UP, K_DOWN, K_LEFT, K_RIGHT, K_w} :
               handle_event(OverlayOpen, KeyEvent(k)).next_dir = next_dir

\* the cells of a board of n by n
Board(n) == (0..(n - 1)) \X (0..(n - 1))

\* the head the next tick computes from next_dir
NewHead == IF wrap THEN wrap_cell(Self, Ahead[1], Ahead[2]) ELSE Ahead

\* C13: whenever spawn_food is called, the board has a cell that is not
\* occupied by the snake, so that its loop of draws can end: when a tick is
\* about to eat, a cell other than the food cell and the snake's cells exists.
C13_FreeCellAtSpawn ==
    (pc = "ticking" /\ NewHead = food) =>
        \E c \in Board(grid) : c # food /\ ~InList(c, snake)

\* whether cells a and b differ by one unit on exactly one axis, the unit being
\* taken modulo grid when wrap is on
Adjacent(a, b) ==
    LET one(u, v) == IF wrap THEN (u - v) % grid \in {1, grid - 1}
                             ELSE Abs(u - v) = 1
    IN  \/ a[2] = b[2] /\ one(a[1], b[1])
        \/ a[1] = b[1] /\ one(a[2], b[2])

\* C14: the snake is never empty, no cell occurs twice in it, and consecutive
\* cells are adjacent.
C14_SnakeShape ==
    /\ Len(snake) >= 1
    /\ \A i, j \in 1..Len(snake) : i # j => snake[i] # snake[j]
    /\ \A i \in 1..(Len(snake) - 1) : Adjacent(snake[i], snake[i + 1])

\* the head crossed the right edge and is on column 0, its neck on the last column
C14_Witness == wrap /\ snake[1][1] = 0 /\ snake[2][1] = grid - 1

\* C15: a tick whose new head is a cell of the snake, the tail's cell included,
\* sets running to False and leaves snake, food, score and speed as they were.
C15_SelfCollisionEndsGame ==
    [][(Tick /\ InList(NewHead, snake)) =>
          /\ ~running'
          /\ snake' = snake
          /\ food' = food
          /\ score' = score
          /\ speed' = speed]_vars

\* the game ended on a tick whose new head was the cell of the tail
C15_Witness ==
    ~running /\ pc = "top" /\ next_dir = dir /\ NewHead = snake[Len(snake)]

\* speeds in tenths: below, at and above the two ends of [3.0, 24.0]
SpeedSamples == {10, 25, 26, 27, 80, 235, 236, 237, 240}

\* speed + 0.4 brought into [3.0, 24.0]
RaisedSpeed(v) == IF v + 4 > 240 THEN 240 ELSE IF v + 4 < 30 THEN 30 ELSE v + 4

\* C16: a tick that eats adds exactly 1 to score, sets speed to
\* clamp(speed + 0.4, 3.0, 24.0), keeps the tail and moves the food to another
\* cell; a tick that does not eat leaves score, speed and food as they were;
\* after a pickup speed lies in [3.0, 24.0].
C16_EatingTick ==
    /\ [][(Tick /\ NewHead = food) =>
             /\ score' = score + 1
             /\ speed' = RaisedSpeed(speed)
             /\ snake' = <<food>> \o snake
             /\ food' # food]_vars
    /\ [][(Tick /\ NewHead # food) =>
             /\ score' = score
             /\ speed' = speed
             /\ food' = food]_vars
    /\ [](score >= 1 => (30 <= speed /\ speed <= 240))
    /\ [](pc = "ticking" =>
             \A v \in SpeedSamples, c \in Draws(grid) :
                 eat([Self EXCEPT !.speed = v], c).speed = RaisedSpeed(v))

\* two pickups were made: the second found speed at 24.0 and left it there
C16_Witness == score = 2 /\ speed = 240 /\ running /\ pc = "top"

\* C20: the length of the snake is 4 plus the score.
C20_LengthIsFourPlusScore == Len(snake) = 4 + score

\* a running game after two pickups, its events being handled
C20_Witness == score = 2 /\ Len(snake) = 6 /\ running /\ pc = "events"

\* a tick commits the pending direction and leaves it pending
TickCommitsPending == [][Tick => (dir' = next_dir /\ next_dir' = next_dir)]_vars

\* a request that is not the reverse of dir replaces the pending direction,
\* whatever was pending; the reverse of dir leaves it
LatestRequestWins ==
    \A d \in Directions :
        try_set_dir(Self, d[1], d[2]).next_dir = (IF d = Neg(dir) THEN next_dir ELSE d)

\* a step outside a tick keeps dir, and changes next_dir only by a request
\* accepted while the events are handled
OnlyRequestsChangePending ==
    /\ dir' = dir
    /\ next_dir' # next_dir =>
           (pc = "events" /\ pc' = "events" /\ next_dir' # Neg(dir))

\* C17 as stated: the direction a tick commits is the most recent request
\* accepted since the tick before it, or else the direction committed before;
\* between two ticks nothing but an accepted request changes what the next
\* tick commits.
C17_TickCommitsLatestRequest ==
    /\ TickCommitsPending
    /\ []LatestRequestWins
    /\ [][pc # "ticking" => OnlyRequestsChangePending]_vars

\* C17 amended: as above within one game; a restart discards the pending
\* request and the committed direction, and sets both to (1, 0).
C17_TickCommitsLatestRequestOfGame ==
    /\ TickCommitsPending
    /\ []LatestRequestWins
    /\ [][(pc # "ticking" /\ ~RestartStep) => OnlyRequestsChangePending]_vars
    /\ [][RestartStep => (dir' = <<1, 0>> /\ next_dir' = <<1, 0>>)]_vars

\* a turn is pending in a running game after a turn upwards was committed
C17_Witness == pc = "events" /\ running /\ dir = <<0, -1>> /\ next_dir # dir

\* C18: after every update made while running, not paused and with the overlay
\* closed, 0 <= tick_timer < 1 / speed for the speed of that moment, also when
\* a pickup in that update raised the speed.
C18_TimerBelowInterval ==
    (pc = "top" /\ clock > 0 /\ running /\ ~paused /\ ~show_settings) =>
        (0 <= tick_timer /\ tick_timer * speed < 10 * TimeScale)

\* displacements of a release along one axis, in pixels: none, short, at the
\* threshold of 16, just over it, long
SwipeOffsets == {-40, -17, -16, -10, 0, 10, 16, 17, 40}

Sign(v) == IF v > 0 THEN 1 ELSE -1

\* what the release of a swipe of displacement <<dx, dy>> leaves of the game g,
\* given what g is after the release
SwipeAsClaimed(g, after, dx, dy) ==
    /\ after.swipe_start = None
    /\ (Abs(dx) > Abs(dy) /\ Abs(dx) > g.SWIPE_THRESHOLD) =>
           after = [try_set_dir(g, Sign(dx), 0) EXCEPT !.swipe_start = None]
    /\ (Abs(dy) > Abs(dx) /\ Abs(dy) > g.SWIPE_THRESHOLD) =>
           after = [try_set_dir(g, 0, Sign(dy)) EXCEPT !.swipe_start = None]
    /\ (Abs(dx) <= g.SWIPE_THRESHOLD /\ Abs(dy) <= g.SWIPE_THRESHOLD) =>
           after = [g EXCEPT !.swipe_start = None]

\* C19: the release of a swipe of displacement (dx, dy) requests the direction
\* of the sign of dx when |dx| is the larger and exceeds SWIPE_THRESHOLD, the
\* direction of the sign of dy when |dy| is the larger and exceeds it, nothing
\* when neither exceeds it, and always clears swipe_start; for the release of
\* mouse button 1 and for the lifting of a finger.
C19_SwipeRelease ==
    (pc = "events" /\ swipe_start # None) =>
        /\ \A ox, oy \in SwipeOffsets :
               SwipeAsClaimed(Self,
                   handle_event(Self, [type |-> "MOUSEBUTTONUP", button |-> 1,
                                       pos |-> <<swipe_start[1] + ox, swipe_start[2] + oy>>]),
                   ox, oy)
        /\ \A p \in FingerUpPoints :
               SwipeAsClaimed(Self,
                   handle_event(Self, [type |-> "FINGERUP", x |-> p[1], y |-> p[2]]),
                   finger_px(p[1], screen[1]) - swipe_start[1],
                   finger_px(p[2], screen[2]) - swipe_start[2])

\* a press is recorded in a resized window while a turn is pending
C19_Witness ==
    pc = "events" /\ swipe_start # None /\ screen = <<800, 600>> /\ next_dir # dir

====
